---- MODULE Spec2Model ----
(***************************************************************************)
(* ameilisearch: an asyncio client of the MeiliSearch HTTP API.            *)
(*                                                                         *)
(* Four state machines are modelled.                                       *)
(*                                                                         *)
(*   SpecPoll       Index.wait_for_pending_update running as one task of  *)
(*                  an asyncio event loop, next to another task of the    *)
(*                  same loop and a caller that may request cancellation. *)
(*   SpecTransport  the HttpRequests transports of one Client and of the  *)
(*                  Index handles obtained through it: their sessions,    *)
(*                  their header dictionaries and the requests in flight. *)
(*   SpecCall       one call of an operation of Client or Index: the      *)
(*                  requests it sends, the replies and what it returns    *)
(*                  or raises.                                            *)
(*   SpecServer     tasks of one event loop working on the same index of  *)
(*                  one server, each through an Index handle of its own.  *)
(*                                                                         *)
(* An asyncio task runs without interruption from one suspension (an      *)
(* await that really waits) to the next, so each action below is one such *)
(* segment of a coroutine.  time.sleep is the exception: it keeps the     *)
(* thread of the event loop for the length of the sleep, so it is split   *)
(* into the segment that enters the sleep and the one that leaves it.     *)
(*                                                                         *)
(* Time is counted in milliseconds.  The timeout is an integer number of  *)
(* milliseconds, so comparing the float elapsed_time with it is the same  *)
(* as comparing its integer part.                                          *)
(***************************************************************************)
EXTENDS Integers, Sequences, FiniteSets, TLC

\* ---------------------------------------------------------------- bounds
MaxTimeout == 3
MaxInterval == 2
MaxLatency == 1
MaxReads == 4
MaxOther == 2
MaxHttp == 3
MaxRequests == 2
MaxItems == 3
MaxBatch == 2
MaxDigits == 9
MaxCalls == 2

\* ------------------------------------------------------ program constants
MsPerSecond == 1000
SecondsPerDay == 86400
\* %f reads at most six digits; len(split[1]) - 6
FractionDigits == 6

MsPerDay == SecondsPerDay * MsPerSecond

\* timeout_in_ms: a few milliseconds, or a little more than one day.
Timeouts == (0 .. MaxTimeout) \cup {MsPerDay + MaxTimeout}
Intervals == 0 .. MaxInterval
Latencies == 0 .. MaxLatency
\* time.sleep returns after at least the time asked for; the thread may be
\* kept longer, up to more than a day (a suspended host).
Oversleeps == {0, 1, MsPerDay}
\* datetime.now() at the moment of the call.
StartTimes == {0, 1500}

Statuses == {"enqueued", "processing", "processed", "failed"}

VARIABLES
    \* ---- the poller task (Index.wait_for_pending_update)
    pc,               \* "idle", "awaiting", "sleeping", "done"
    now,              \* datetime.now(), in ms
    start_time,
    elapsed_time,
    timeout_in_ms,
    interval_in_ms,
    get_update,       \* the status last read, "none" before the first read
    outcome,          \* "none", "returned", "timeout", "error", "cancelled"
    inflight,         \* a status GET has been issued and not yet ended
    \* ---- what the poller has done so far
    statuses,         \* the statuses read, in order
    reads,            \* number of status GETs issued
    sleeps,           \* number of calls of sleep
    \* ---- the rest of the event loop
    otherSteps,       \* steps taken by another task of the same loop
    cancelRequested,  \* the caller has asked to cancel the poller task
    cancelPc,         \* pc at the moment of that request
    readsAtCancel,    \* reads at the moment of that request
    \* ---- the transports (HttpRequests objects)
    http,             \* the transports created so far; http[1] is Client.http
    sessions,         \* the ClientSessions created so far
    requests,         \* the requests in flight
    finished,         \* the request that ended last
    sent,             \* number of requests sent so far
    clientClosed,     \* Client.close / __aexit__ ran and nothing was sent since
    \* ---- one operation of Client or Index, from its call to its result
    op,               \* the operation called, "none" before the call
    stage,            \* "idle", "awaiting", "done"
    log,              \* the requests the operation has sent, with their results
    opResult,         \* what the operation returned or raised
    \* ---- one index on the server and the tasks that work on it
    server,           \* the index "a" as the server holds it
    handles,          \* handles[t]: the Index object that task t works with
    tasks             \* tasks[t]: the operation task t is in

pollVars == <<pc, now, start_time, elapsed_time, timeout_in_ms, interval_in_ms,
              get_update, outcome, inflight, statuses, reads, sleeps,
              otherSteps, cancelRequested, cancelPc, readsAtCancel>>

transportVars == <<http, sessions, requests, finished, sent, clientClosed>>

callVars == <<op, stage, log, opResult>>

serverVars == <<server, handles, tasks>>

vars == <<pollVars, transportVars, callVars, serverVars>>

\* ------------------------------------------------------------------------
\* datetime.now() - start_time as a timedelta: days, seconds (0..86399) and
\* microseconds (0..999999) of a non-negative duration given in ms.
TimeDelta(ms) ==
    [days |-> ms \div MsPerDay,
     seconds |-> (ms % MsPerDay) \div MsPerSecond,
     microseconds |-> (ms % MsPerSecond) * 1000]

ElapsedTimeNoDivision(time_delta) ==
    time_delta.seconds * 1000 + time_delta.microseconds

\* time_delta.seconds * 1000 + time_delta.microseconds / 1000
ElapsedTime(time_delta) ==
    time_delta.seconds * 1000 + time_delta.microseconds \div 1000

IsPendingOnlyProcessedEnds(status) == status # "processed"

IsPendingOr(status) == ~(status # "enqueued" \/ status # "processing")

\* not (status != "enqueued" and status != "processing")
IsPending(status) == ~(status # "enqueued" /\ status # "processing")

\* while elapsed_time < timeout_in_ms
LoopCondition(elapsed, timeout) == elapsed < timeout

\* The thread of the event loop is inside time.sleep.
ThreadBlocked == pc = "sleeping"

\* The top of the while loop: either the next status GET is issued and the
\* task suspends on it, or the loop ends and the timeout error is raised.
LoopTop(elapsed, timeout) ==
    IF LoopCondition(elapsed, timeout)
    THEN /\ reads < MaxReads
         /\ pc' = "awaiting"
         /\ reads' = reads + 1
         /\ inflight' = TRUE
         /\ outcome' = outcome
    ELSE /\ pc' = "done"
         /\ outcome' = "timeout"
         /\ UNCHANGED <<reads, inflight>>

\* The call: start_time, elapsed_time = 0.0, then the top of the loop.
WaitForPendingUpdate(timeout, interval) ==
    /\ UNCHANGED <<transportVars, callVars, serverVars>>
    /\ pc = "idle"
    /\ start_time' = now
    /\ elapsed_time' = 0
    /\ timeout_in_ms' = timeout
    /\ interval_in_ms' = interval
    /\ LoopTop(0, timeout)
    /\ UNCHANGED <<now, get_update, statuses, sleeps, otherSteps,
                   cancelRequested, cancelPc, readsAtCancel>>

\* get_update_status returns: a terminal status is returned to the caller,
\* a pending one sends the task into sleep(interval_in_ms / 1000).
StatusRead(status, latency) ==
    /\ UNCHANGED <<transportVars, callVars, serverVars>>
    /\ pc = "awaiting"
    /\ ~cancelRequested
    /\ now' = now + latency
    /\ get_update' = status
    /\ statuses' = Append(statuses, status)
    /\ inflight' = FALSE
    /\ IF IsPending(status)
       THEN /\ pc' = "sleeping"
            /\ sleeps' = sleeps + 1
            /\ outcome' = outcome
       ELSE /\ pc' = "done"
            /\ outcome' = "returned"
            /\ sleeps' = sleeps
    /\ UNCHANGED <<start_time, elapsed_time, timeout_in_ms, interval_in_ms,
                   reads, otherSteps, cancelRequested, cancelPc, readsAtCancel>>

\* get_update_status raises (API, communication or timeout error of the
\* request): the error leaves wait_for_pending_update.
StatusReadFails(latency) ==
    /\ UNCHANGED <<transportVars, callVars, serverVars>>
    /\ pc = "awaiting"
    /\ ~cancelRequested
    /\ now' = now + latency
    /\ inflight' = FALSE
    /\ pc' = "done"
    /\ outcome' = "error"
    /\ UNCHANGED <<start_time, elapsed_time, timeout_in_ms, interval_in_ms,
                   get_update, statuses, reads, sleeps, otherSteps,
                   cancelRequested, cancelPc, readsAtCancel>>

\* sleep returns: the elapsed time is computed and the loop goes on.
SleepReturns(oversleep) ==
    /\ UNCHANGED <<transportVars, callVars, serverVars>>
    /\ pc = "sleeping"
    /\ now' = now + interval_in_ms + oversleep
    /\ elapsed_time' = ElapsedTime(TimeDelta(now' - start_time))
    /\ LoopTop(elapsed_time', timeout_in_ms)
    /\ UNCHANGED <<start_time, timeout_in_ms, interval_in_ms, get_update,
                   statuses, sleeps, otherSteps, cancelRequested, cancelPc,
                   readsAtCancel>>

\* Another task of the same event loop runs one of its segments.  The loop
\* has one thread: nothing else runs while it is inside time.sleep.
OtherTaskStep ==
    /\ UNCHANGED <<transportVars, callVars, serverVars>>
    /\ ~ThreadBlocked
    /\ otherSteps < MaxOther
    /\ otherSteps' = otherSteps + 1
    /\ UNCHANGED <<pc, now, start_time, elapsed_time, timeout_in_ms,
                   interval_in_ms, get_update, outcome, inflight, statuses,
                   reads, sleeps, cancelRequested, cancelPc, readsAtCancel>>

\* The caller asks to cancel the poller task (a wait_for deadline that
\* expires, a cancel handed over from another thread).  The request waits
\* in the event loop until the loop gets its thread back.
CancelRequest ==
    /\ UNCHANGED <<transportVars, callVars, serverVars>>
    /\ pc \in {"awaiting", "sleeping"}
    /\ ~cancelRequested
    /\ cancelRequested' = TRUE
    /\ cancelPc' = pc
    /\ readsAtCancel' = reads
    /\ UNCHANGED <<pc, now, start_time, elapsed_time, timeout_in_ms,
                   interval_in_ms, get_update, outcome, inflight, statuses,
                   reads, sleeps, otherSteps>>

\* The event loop delivers the cancellation: CancelledError is thrown into
\* the task at the await it is suspended on, which cancels the request.
CancelDelivered ==
    /\ UNCHANGED <<transportVars, callVars, serverVars>>
    /\ pc = "awaiting"
    /\ cancelRequested
    /\ pc' = "done"
    /\ outcome' = "cancelled"
    /\ inflight' = FALSE
    /\ UNCHANGED <<now, start_time, elapsed_time, timeout_in_ms,
                   interval_in_ms, get_update, statuses, reads, sleeps,
                   otherSteps, cancelRequested, cancelPc, readsAtCancel>>

\* ========================================================================
\* The transports.
\*
\*   http[t]      [owner, session, headers]: owner is "client" (Client.http),
\*                "index" (the HttpRequests of an Index handle) or "create"
\*                (the HttpRequests that Index.create makes for its POST);
\*                session is 0 for None, else an index of sessions.
\*   sessions[s]  [transport, closed]: the transport that created it.
\*   requests     the requests in flight, in the order they were sent, each
\*                [transport, session, content_type, headers, overlapped,
\*                reopened]: content_type is the argument of the call
\*                ("none" for None), headers the dictionary handed to
\*                session.request, overlapped says that another request of
\*                the same transport was in flight when this one was sent,
\*                reopened that the call replaced a closed session.
\*   finished     the request that ended last, with the way it ended.

ContentTypes == {"none", "application/json", "text/csv"}

Outcomes == {"ok", "api_error", "communication_error", "timeout_error"}

NoRequest == [reopened |-> FALSE, state |-> "none"]

\* HttpRequests.__init__
NewHttpRequests(owner) ==
    [owner |-> owner,
     session |-> 0,
     headers |-> [k \in {"Authorization"} |-> "Bearer api_key"]]

NeedsSessionIfNone(tr) == tr.session = 0

NeedsSessionAlways(tr) == TRUE

\* not self.session or self.session.closed
NeedsSession(tr) == tr.session = 0 \/ sessions[tr.session].closed

HeadersForOnlyContentType(headers, content_type) ==
    IF content_type # "none"
    THEN [k \in {"Content-Type"} |-> content_type]
    ELSE headers

\* if content_type: self.headers["Content-Type"] = content_type
\* self.headers = {k: v for k, v in self.headers.items() if v is not None}
HeadersFor(headers, content_type) ==
    LET set == IF content_type # "none"
               THEN [k \in DOMAIN headers \cup {"Content-Type"} |->
                        IF k = "Content-Type" THEN content_type ELSE headers[k]]
               ELSE headers
    IN  [k \in {k \in DOMAIN set : set[k] # "None"} |-> set[k]]

ContentTypeOf(headers) ==
    IF "Content-Type" \in DOMAIN headers THEN headers["Content-Type"] ELSE "none"

InFlightOn(t) == {r \in 1 .. Len(requests) : requests[r].transport = t}

RemoveAt(seq, i) == SubSeq(seq, 1, i - 1) \o SubSeq(seq, i + 1, Len(seq))

\* send_request on transport t of the transports h, up to the await of
\* session.request: the session is opened if need be, the header dictionary
\* is updated and handed to the session, which copies it into the request
\* before it suspends.  A session that is closed refuses the request
\* (RuntimeError), which then ends at once.
SendRequest(h, t, content_type) ==
    LET tr == h[t]
        fresh == NeedsSession(tr)
        sid == IF fresh THEN Len(sessions) + 1 ELSE tr.session
        newSessions == IF fresh
                       THEN Append(sessions, [transport |-> t, closed |-> FALSE])
                       ELSE sessions
        newHeaders == HeadersFor(tr.headers, content_type)
        reopened == fresh /\ tr.session # 0
    IN  /\ sent < MaxRequests
        /\ sent' = sent + 1
        /\ sessions' = newSessions
        /\ http' = [h EXCEPT ![t] = [owner |-> tr.owner,
                                     session |-> sid,
                                     headers |-> newHeaders]]
        /\ IF newSessions[sid].closed
           THEN /\ requests' = requests
                /\ finished' = [reopened |-> reopened, state |-> "runtime_error"]
           ELSE /\ requests' = Append(requests,
                       [transport |-> t,
                        session |-> sid,
                        content_type |-> content_type,
                        headers |-> newHeaders,
                        overlapped |-> InFlightOn(t) # {},
                        reopened |-> reopened])
                /\ finished' = finished
        /\ clientClosed' = FALSE
        /\ UNCHANGED <<pollVars, callVars, serverVars>>

\* The transports a caller holds: Client.http and the Index handles'.
Held == {t \in 1 .. Len(http) : http[t].owner \in {"client", "index"}}

\* HttpRequests.get
Get(t) == t \in Held /\ SendRequest(http, t, "none")

\* HttpRequests.post
Post(t, content_type) == t \in Held /\ SendRequest(http, t, content_type)

\* HttpRequests.put, which every caller leaves at its default content type
Put(t) == t \in Held /\ SendRequest(http, t, "application/json")

\* HttpRequests.delete
Delete(t) == t \in Held /\ SendRequest(http, t, "none")

\* Index.__init__: every Index handle makes its own HttpRequests.
NewIndex ==
    /\ Len(http) < MaxHttp
    /\ http' = Append(http, NewHttpRequests("index"))
    /\ UNCHANGED <<sessions, requests, finished, sent, clientClosed>>
    /\ UNCHANGED <<pollVars, callVars, serverVars>>

\* Index.create, up to the await: the POST goes through an HttpRequests made
\* for this one call.
IndexCreate ==
    /\ Len(http) + 2 <= MaxHttp
    /\ SendRequest(Append(http, NewHttpRequests("create")), Len(http) + 1,
                   "application/json")

\* The session of transport t is closed (ClientSession.close).
CloseSessionOf(t) ==
    IF http[t].session # 0
    THEN [sessions EXCEPT ![http[t].session].closed = TRUE]
    ELSE sessions

\* Client.close
ClientClose ==
    /\ sessions' = CloseSessionOf(1)
    /\ clientClosed' = TRUE
    /\ UNCHANGED <<http, requests, finished, sent>>
    /\ UNCHANGED <<pollVars, callVars, serverVars>>

\* Client.__aexit__
ClientAexit ==
    /\ sessions' = CloseSessionOf(1)
    /\ clientClosed' = TRUE
    /\ UNCHANGED <<http, requests, finished, sent>>
    /\ UNCHANGED <<pollVars, callVars, serverVars>>

\* Index.close and Index.__aexit__
IndexClose(t) ==
    /\ t \in Held
    /\ http[t].owner = "index"
    /\ http[t].session # 0
    /\ ~sessions[http[t].session].closed
    /\ sessions' = CloseSessionOf(t)
    /\ UNCHANGED <<http, requests, finished, sent, clientClosed>>
    /\ UNCHANGED <<pollVars, callVars, serverVars>>

\* The request r ends.  A request whose session was closed under it ends as
\* a connection error.  When Index.create's POST succeeds, Index.create
\* goes on to build the Index handle it returns.
Respond(r, result) ==
    /\ r \in 1 .. Len(requests)
    /\ sessions[requests[r].session].closed => result = "communication_error"
    /\ requests' = RemoveAt(requests, r)
    /\ finished' = [reopened |-> requests[r].reopened, state |-> result]
    /\ IF http[requests[r].transport].owner = "create" /\ result = "ok"
       THEN http' = Append(http, NewHttpRequests("index"))
       ELSE http' = http
    /\ UNCHANGED <<sessions, sent, clientClosed>>
    /\ UNCHANGED <<pollVars, callVars, serverVars>>

\* ========================================================================
\* One call of send_request seen from its caller: the body it is given, the
\* payload handed to aiohttp, the reply, and what the call returns or raises.
\*
\* Python values are records tagged with their type.  Texts that go over the
\* wire (the JSON text of a request, the content of a response) are
\* sequences of tokens, so that json.dumps and json.loads are conversions
\* between values and texts.

Ids == {"a", "b"}

None == [type |-> "None"]

Punct(c) == [t |-> "punct", v |-> c]

String(x) == [t |-> "string", v |-> x]

\* The order in which the keys of a dict are written.
KeyOrder ==
    <<"uid", "primaryKey", "createdAt", "updatedAt", "message", "code", "link",
      "updateId">>

SeqsUpTo(S, n) == UNION {[1 .. k -> S] : k \in 0 .. n}

ListValue(items) == [type |-> "list", items |-> items]

DictValue(items) == [type |-> "dict", items |-> items]

BytesValue(data) == [type |-> "bytes", data |-> data]

\* The bodies a caller hands to send_request.
Bodies ==
    {None}
    \cup {ListValue(items) : items \in SeqsUpTo(Ids, MaxItems)}
    \cup {DictValue(items) :
            items \in UNION {[K -> Ids] : K \in SUBSET {"uid", "primaryKey"}}}
    \cup {BytesValue(data) : data \in SeqsUpTo(Ids, MaxItems)}

\* bool(body)
Truthy(body) ==
    CASE body.type = "None" -> FALSE
      [] body.type = "list" -> Len(body.items) > 0
      [] body.type = "dict" -> DOMAIN body.items # {}
      [] body.type = "bytes" -> Len(body.data) > 0

RECURSIVE DumpsItems(_)
DumpsItems(items) ==
    IF Len(items) = 0 THEN <<>>
    ELSE IF Len(items) = 1 THEN <<String(items[1])>>
    ELSE <<String(items[1]), Punct(",")>> \o DumpsItems(Tail(items))

RECURSIVE DumpsPairs(_, _)
DumpsPairs(items, keys) ==
    IF Len(keys) = 0 THEN <<>>
    ELSE LET rest == DumpsPairs(items, Tail(keys))
             k == Head(keys)
         IN  IF k \notin DOMAIN items THEN rest
             ELSE <<String(k), Punct(":"), String(items[k])>>
                  \o (IF Len(rest) = 0 THEN <<>> ELSE <<Punct(",")>> \o rest)

\* json.dumps of a list or a dict
Dumps(value) ==
    IF value.type = "list"
    THEN <<Punct("[")>> \o DumpsItems(value.items) \o <<Punct("]")>>
    ELSE <<Punct("{")>> \o DumpsPairs(value.items, KeyOrder) \o <<Punct("}")>>

\* json.loads: the value of a JSON text, or the failure to read one.
Loads(text) ==
    LET n == Len(text)
        inner == SubSeq(text, 2, n - 1)
        m == Len(inner)
    IN  IF n >= 2 /\ text[1] = Punct("[") /\ text[n] = Punct("]")
        THEN [ok |-> TRUE,
              value |-> ListValue([i \in 1 .. (m + 1) \div 2 |-> inner[2 * i - 1].v])]
        ELSE IF n >= 2 /\ text[1] = Punct("{") /\ text[n] = Punct("}")
        THEN [ok |-> TRUE,
              value |-> DictValue(
                  [k \in {inner[4 * i - 3].v : i \in 1 .. (m + 1) \div 4} |->
                      LET i == CHOOSE j \in 1 .. (m + 1) \div 4 : inner[4 * j - 3].v = k
                      IN  inner[4 * i - 1].v])]
        ELSE [ok |-> FALSE]

\* The data argument of session.request: body itself for bytes, else
\* json.dumps(body) if body else None.
DataOf(body) ==
    IF body.type = "bytes" THEN body
    ELSE IF Truthy(body) THEN [type |-> "str", data |-> Dumps(body)]
    ELSE None

\* ---- replies

HttpStatuses == {200, 204, 304, 404, 500}

ErrorDicts ==
    {items \in UNION {[K -> {"msg", "index_not_found", "index_already_exists",
                             "https://docs"}] :
                        K \in SUBSET {"message", "code", "link"}} :
        \A k \in DOMAIN items :
            /\ k = "message" => items[k] = "msg"
            /\ k = "code" => items[k] \in {"index_not_found", "index_already_exists"}
            /\ k = "link" => items[k] = "https://docs"}

IndexDict ==
    [k \in {"uid", "primaryKey", "createdAt", "updatedAt"} |->
        IF k = "uid" THEN "a"
        ELSE IF k = "primaryKey" THEN "b"
        ELSE "2021-09-01T12:00:00.000000Z"]

\* The contents of a response: nothing, a JSON object (an error description
\* or the metadata of an index), a JSON array, or a text that is not JSON.
Contents ==
    {<<>>}
    \cup {Dumps(DictValue(items)) : items \in ErrorDicts \cup {IndexDict}}
    \cup {<<Punct("["), Punct("]")>>}
    \cup {<<[t |-> "text", v |-> "<html>"]>>}

\* What aiohttp raises instead of giving a response, by cause.  The timeout
\* handed to session.request is a number, which aiohttp takes as the total
\* timeout and reports as asyncio.TimeoutError; its socket timeouts are
\* reported as ServerTimeoutError.
Raised ==
    {[cause |-> "connection_failure", exc |-> "ClientConnectorError"],
     [cause |-> "connection_failure", exc |-> "ServerDisconnectedError"],
     [cause |-> "timeout", exc |-> "asyncio.TimeoutError"],
     [cause |-> "timeout", exc |-> "ServerTimeoutError"]}

Replies ==
    {[type |-> "response", status |-> st, content |-> c] :
        st \in HttpStatuses, c \in Contents}
    \cup {[type |-> "exception", cause |-> r.cause, exc |-> r.exc] : r \in Raised}

\* The classes of aiohttp's exceptions: isinstance(exc, cls).
IsInstance(exc, cls) ==
    \/ exc = cls
    \/ cls = "ClientConnectionError"
       /\ exc \in {"ClientConnectorError", "ServerDisconnectedError",
                   "ServerTimeoutError"}
    \/ cls = "asyncio.TimeoutError" /\ exc = "ServerTimeoutError"

Return(value) == [kind |-> "return", value |-> value]

Raise(error) == [kind |-> "raise", error |-> error]

\* An exception that carries only a message.
Error(class) == [class |-> class]

\* dict.get(key): None when the key is missing.
DictGet(items, key) == IF key \in DOMAIN items THEN items[key] ELSE "None"

ApiErrorMessageFromCode(error, text, status_code) ==
    LET json_data == Loads(text)
    IN  IF Len(text) > 0
        THEN IF ~json_data.ok THEN Raise(Error("JSONDecodeError"))
             ELSE IF json_data.value.type # "dict"
             THEN Raise(Error("AttributeError"))
             ELSE Raise([class |-> "MeiliSearchApiError",
                         status_code |-> status_code,
                         message |-> DictGet(json_data.value.items, "code"),
                         code |-> DictGet(json_data.value.items, "code"),
                         link |-> DictGet(json_data.value.items, "link")])
        ELSE Raise([class |-> "MeiliSearchApiError",
                    status_code |-> status_code,
                    message |-> "None",
                    code |-> "None",
                    link |-> "None"])

\* raise MeiliSearchApiError(error, text, status_code): the error built by
\* __init__, or the exception that __init__ itself lets out.
ApiError(error, text, status_code) ==
    LET json_data == Loads(text)
    IN  IF Len(text) > 0
        THEN IF ~json_data.ok THEN Raise(Error("JSONDecodeError"))
             ELSE IF json_data.value.type # "dict"
             THEN Raise(Error("AttributeError"))
             ELSE Raise([class |-> "MeiliSearchApiError",
                         status_code |-> status_code,
                         message |-> DictGet(json_data.value.items, "message"),
                         code |-> DictGet(json_data.value.items, "code"),
                         link |-> DictGet(json_data.value.items, "link")])
        ELSE Raise([class |-> "MeiliSearchApiError",
                    status_code |-> status_code,
                    message |-> error,
                    code |-> "None",
                    link |-> "None"])

\* ClientResponse.raise_for_status raises for the statuses from 400 on.
RaisesForStatus(status) == status >= 400

\* __to_json
ToJson(content, response) ==
    IF content = <<>>
    THEN Return([type |-> "ClientResponse", status |-> response.status])
    ELSE IF Loads(content).ok THEN Return(Loads(content).value)
    ELSE Raise(Error("JSONDecodeError"))

\* __validate
Validate(response) ==
    IF RaisesForStatus(response.status)
    THEN ApiError("ClientResponseError", response.content, response.status)
    ELSE ToJson(response.content, response)

\* send_request from the reply on: the response is validated; an exception of
\* aiohttp goes through the except clauses in their order, and one that no
\* clause names leaves send_request as it is.
SendRequestResult(reply) ==
    IF reply.type = "response" THEN Validate(reply)
    ELSE IF IsInstance(reply.exc, "ServerTimeoutError")
    THEN Raise(Error("MeiliSearchTimeoutError"))
    ELSE IF IsInstance(reply.exc, "ClientConnectionError")
    THEN Raise(Error("MeiliSearchCommunicationError"))
    ELSE Raise(Error(reply.exc))

\* ---- the operations of Client and Index over one transport

Uid == "a"

Bool(b) == [type |-> "bool", value |-> b]

NoReply == [type |-> "pending"]

\* One call of send_request(method, path, body) that awaits its reply.
Request(method, path, body) ==
    [method |-> method, path |-> path, body |-> body, data |-> DataOf(body),
     reply |-> NoReply]

NextRequest(request) == [kind |-> "request", request |-> request]

IsApiError(result) ==
    result.kind = "raise" /\ result.error.class = "MeiliSearchApiError"

IsMeiliSearchErrorAny(error) == TRUE

\* isinstance(error, MeiliSearchError)
IsMeiliSearchError(error) ==
    error.class \in {"MeiliSearchError", "MeiliSearchApiError",
                     "MeiliSearchCommunicationError", "MeiliSearchTimeoutError"}

Min(a, b) == IF a < b THEN a ELSE b

\* ---- timestamps

Date == "2021-09-01T12:00:00"

DigitChars == {"0", "7"}

DigitValue(c) == IF c = "7" THEN 7 ELSE 0

\* A timestamp text: Date followed by the characters of rest.
IsoText(rest) == [type |-> "str", date |-> Date, rest |-> rest]

DateTime(date, microsecond) ==
    [type |-> "datetime", date |-> date, microsecond |-> microsecond]

\* The values handed to _iso_to_date_time: None, a datetime, and the texts
\* Date + "Z" and Date + "." + digits + "Z".
IsoDates ==
    {None, DateTime(Date, 0), IsoText(<<"Z">>)}
    \cup {IsoText(<<".">> \o digits \o <<"Z">>) :
            digits \in SeqsUpTo(DigitChars, MaxDigits)}

RECURSIVE Pow10(_)
Pow10(k) == IF k = 0 THEN 1 ELSE 10 * Pow10(k - 1)

RECURSIVE Microsecond(_)
\* The value of %f: the digits read as a fraction of a second, in
\* microseconds.
Microsecond(digits) ==
    IF Len(digits) = 0 THEN 0
    ELSE DigitValue(digits[1]) * Pow10(FractionDigits - 1)
         + Microsecond(Tail(digits)) \div 10

\* datetime.strptime(text, "%Y-%m-%dT%H:%M:%S.%fZ")
Strptime(text) ==
    LET n == Len(text.rest)
    IN  IF /\ n >= 3
           /\ n - 2 <= FractionDigits
           /\ text.rest[1] = "."
           /\ text.rest[n] = "Z"
           /\ \A i \in 2 .. n - 1 : text.rest[i] \in DigitChars
        THEN Return(DateTime(text.date, Microsecond(SubSeq(text.rest, 2, n - 1))))
        ELSE Raise(Error("ValueError"))

\* The parts of rest between its dots; the first part follows the date.
Split(rest) ==
    IF \E i \in 1 .. Len(rest) : rest[i] = "."
    THEN LET dot == CHOOSE i \in 1 .. Len(rest) :
                        /\ rest[i] = "."
                        /\ \A j \in 1 .. i - 1 : rest[j] # "."
         IN  <<SubSeq(rest, 1, dot - 1), SubSeq(rest, dot + 1, Len(rest))>>
    ELSE <<rest>>

SliceToFromStart(s, k) == SubSeq(s, 1, Min(k, Len(s)))

\* s[:k]
SliceTo(s, k) ==
    IF k >= 0 THEN SubSeq(s, 1, Min(k, Len(s)))
    ELSE SubSeq(s, 1, Len(s) + k)

\* Index._iso_to_date_time
IsoToDateTime(iso_date) ==
    IF iso_date.type = "None" THEN Return(None)
    ELSE IF iso_date.type = "datetime" THEN Return(iso_date)
    ELSE IF Strptime(iso_date).kind = "return" THEN Strptime(iso_date)
    ELSE LET split == Split(iso_date.rest)
         IN  IF Len(split) < 2 THEN Raise(Error("IndexError"))
             ELSE LET reduce == Len(split[2]) - FractionDigits
                      reduced == [iso_date EXCEPT
                                     !.rest = split[1] \o <<".">>
                                              \o SliceTo(split[2], 0 - reduce)
                                              \o <<"Z">>]
                  IN  Strptime(reduced)

\* The characters of the timestamps that the server sends as JSON strings.
Timestamp(text) ==
    IF text = "None" THEN None
    ELSE IF text = "2021-09-01T12:00:00Z" THEN IsoText(<<"Z">>)
    ELSE IF text = "2021-09-01T12:00:00.7000000Z"
    THEN IsoText(<<".", "7", "0", "0", "0", "0", "0", "0", "Z">>)
    ELSE IsoText(<<".", "0", "0", "0", "0", "0", "0", "Z">>)

\* Index.__init__ with the timestamps already converted
IndexValue(uid, primary_key, created_at, updated_at) ==
    [type |-> "Index", uid |-> uid, primary_key |-> primary_key,
     created_at |-> created_at, updated_at |-> updated_at]

\* value[key] for each of the keys in turn: the first one that fails
Subscripts(value, keys) ==
    IF value.type # "dict" THEN Raise(Error("TypeError"))
    ELSE IF ~(keys \subseteq DOMAIN value.items) THEN Raise(Error("KeyError"))
    ELSE Return(value)

ClientDeleteIndexIfExistsAnyCode(result) ==
    IF result.kind = "return" THEN Return(Bool(TRUE))
    ELSE IF IsApiError(result) THEN Return(Bool(FALSE))
    ELSE result

\* Client.delete_index_if_exists from the reply on
ClientDeleteIndexIfExists(result) ==
    IF result.kind = "return" THEN Return(Bool(TRUE))
    ELSE IF IsApiError(result)
    THEN IF result.error.code # "index_not_found" THEN result
         ELSE Return(Bool(FALSE))
    ELSE result

\* Index.delete from the reply on
IndexDelete(result) == result

\* Index.delete_if_exists from the reply on
IndexDeleteIfExists(result) ==
    LET deleted == IndexDelete(result)
    IN  IF deleted.kind = "return" THEN Return(Bool(TRUE))
        ELSE IF IsApiError(deleted)
        THEN IF deleted.error.code # "index_not_found" THEN deleted
             ELSE Return(Bool(FALSE))
        ELSE deleted

\* The body of fetch_info and of update after the request: the three
\* assignments to self in their order, each of which may raise; self is the
\* handle as the statement that raised, or the return, leaves it.
Refresh(self, result) ==
    LET items == result.value.items
        created_at == IsoToDateTime(Timestamp(items["createdAt"]))
        updated_at == IsoToDateTime(Timestamp(items["updatedAt"]))
        self1 == [self EXCEPT !.primary_key = items["primaryKey"]]
        self2 == [self1 EXCEPT !.created_at = created_at.value]
        self3 == [self2 EXCEPT !.updated_at = updated_at.value]
        Left(handle, ended) == [self |-> handle, outcome |-> ended]
    IN  IF result.kind = "raise" THEN Left(self, result)
        ELSE IF result.value.type # "dict"
        THEN Left(self, Raise(Error("TypeError")))
        ELSE IF "primaryKey" \notin DOMAIN items
        THEN Left(self, Raise(Error("KeyError")))
        ELSE IF "createdAt" \notin DOMAIN items
        THEN Left(self1, Raise(Error("KeyError")))
        ELSE IF created_at.kind = "raise" THEN Left(self1, created_at)
        ELSE IF "updatedAt" \notin DOMAIN items
        THEN Left(self2, Raise(Error("KeyError")))
        ELSE IF updated_at.kind = "raise" THEN Left(self2, updated_at)
        ELSE Left(self3, Return(self3))

\* Index.fetch_info and Index.update from the reply on
FetchInfo(result) ==
    LET refreshed == Refresh(IndexValue(Uid, "None", None, None), result)
    IN  IF refreshed.outcome.kind = "raise" THEN refreshed.outcome
        ELSE Return(refreshed.self)

\* payload = {**options, "uid": uid}
CreatePayload(options) ==
    LET given == IF options.type = "None" THEN <<>> ELSE options.items
    IN  DictValue([k \in DOMAIN given \cup {"uid"} |->
                      IF k = "uid" THEN Uid ELSE given[k]])

\* Index.create from the reply on
Create(result) ==
    LET read == Subscripts(result.value, {"uid", "primaryKey"})
    IN  IF result.kind = "raise" THEN result
        ELSE IF read.kind = "raise" THEN read
        ELSE Return(IndexValue(result.value.items["uid"],
                               result.value.items["primaryKey"],
                               IsoToDateTime(None).value,
                               IsoToDateTime(None).value))

GetOrCreateIndexAnyCode(fetched, options) ==
    LET index_instance == FetchInfo(fetched)
    IN  IF IsApiError(index_instance)
        THEN NextRequest(Request("POST", "indexes", CreatePayload(options)))
        ELSE index_instance

GetOrCreateIndexFetchAgain(fetched, options) ==
    LET index_instance == FetchInfo(fetched)
    IN  IF IsApiError(index_instance)
        THEN IF index_instance.error.code # "index_not_found"
             THEN NextRequest(Request("GET", "indexes/a", None))
             ELSE NextRequest(Request("POST", "indexes", CreatePayload(options)))
        ELSE index_instance

\* Client.get_or_create_index from the reply of get_index on
GetOrCreateIndex(fetched, options) ==
    LET index_instance == FetchInfo(fetched)
    IN  IF IsApiError(index_instance)
        THEN IF index_instance.error.code # "index_not_found"
             THEN index_instance
             ELSE NextRequest(Request("POST", "indexes", CreatePayload(options)))
        ELSE index_instance

\* Client.is_healthy from the reply of health on
IsHealthy(result) ==
    IF result.kind = "raise"
    THEN IF IsMeiliSearchError(result.error) THEN Return(Bool(FALSE)) ELSE result
    ELSE Return(Bool(TRUE))

\* Client.get_indexes from the reply on: every element of the list read is
\* subscripted with "uid"; the elements of the lists read here are strings.
GetIndexes(result) ==
    IF result.kind = "raise" THEN result
    ELSE IF result.value.type = "ClientResponse" THEN Raise(Error("TypeError"))
    ELSE IF result.value.type = "dict"
    THEN IF DOMAIN result.value.items = {} THEN Return(ListValue(<<>>))
         ELSE Raise(Error("TypeError"))
    ELSE IF Len(result.value.items) = 0 THEN Return(ListValue(<<>>))
    ELSE Raise(Error("TypeError"))

\* The operations that hand back what the request gave them.
PassThrough ==
    {"send_request", "health", "get_raw_index", "get_update_status",
     "add_documents", "delete_documents"}

\* What the waiting operation does with the result of its n-th request.
Resume(o, n, result) ==
    CASE o.name \in PassThrough -> result
      [] o.name = "delete_index_if_exists" -> ClientDeleteIndexIfExists(result)
      [] o.name = "delete" -> IndexDelete(result)
      [] o.name = "delete_if_exists" -> IndexDeleteIfExists(result)
      [] o.name \in {"get_index", "update"} -> FetchInfo(result)
      [] o.name = "create_index" -> Create(result)
      [] o.name = "get_or_create_index" ->
            IF n = 1 THEN GetOrCreateIndex(result, o.arg) ELSE Create(result)
      [] o.name = "is_healthy" -> IsHealthy(result)
      [] o.name = "get_indexes" -> GetIndexes(result)

Methods == {"GET", "POST", "PUT", "DELETE"}

\* The options of create_index and get_or_create_index.
Options == {None, DictValue(<<>>), DictValue([primaryKey |-> "b"])}

Documents == {ListValue(items) : items \in SeqsUpTo(Ids, MaxItems)}

\* The operations that take no argument, and the request each one sends.
FirstRequest ==
    [delete_index_if_exists |-> Request("DELETE", "indexes/a", None),
     delete |-> Request("DELETE", "indexes/a", None),
     delete_if_exists |-> Request("DELETE", "indexes/a", None),
     get_index |-> Request("GET", "indexes/a", None),
     get_raw_index |-> Request("GET", "indexes/a", None),
     get_indexes |-> Request("GET", "indexes", None),
     get_update_status |-> Request("GET", "indexes/a/updates/1", None),
     update |-> Request("PUT", "indexes/a", DictValue([primaryKey |-> "b"])),
     health |-> Request("GET", "health", None),
     is_healthy |-> Request("GET", "health", None)]

Start(name, arg, request) ==
    /\ stage = "idle"
    /\ op' = [name |-> name, arg |-> arg]
    /\ log' = <<request>>
    /\ stage' = "waiting"
    /\ UNCHANGED opResult
    /\ UNCHANGED <<pollVars, transportVars, serverVars>>

\* HttpRequests.get, post, put and delete
SendRequestCalled(method, body) ==
    Start("send_request", None, Request(method, "path", body))

Operation(name) == Start(name, None, FirstRequest[name])

CreateIndex(options) ==
    Start("create_index", options,
          Request("POST", "indexes", CreatePayload(options)))

GetOrCreateIndexCalled(options) ==
    Start("get_or_create_index", options, FirstRequest["get_index"])

AddDocuments(documents) ==
    Start("add_documents", None,
          Request("POST", "indexes/a/documents", documents))

DeleteDocuments(ids) ==
    Start("delete_documents", None,
          Request("POST", "indexes/a/documents/delete-batch", ids))

\* ---- documents sent in batches

BatchSizes == 1 .. MaxBatch

UpdateIds == {"1", "2"}

\* The replies to the request of one batch: the server accepts the documents
\* and names the update, or the request fails.
BatchReplies ==
    {[type |-> "response", status |-> 202,
      content |-> Dumps(DictValue([updateId |-> u]))] : u \in UpdateIds}
    \cup {[type |-> "response", status |-> 500, content |-> <<>>],
          [type |-> "exception", cause |-> "connection_failure",
           exc |-> "ServerDisconnectedError"]}

BatchFullOnly(documents, batch_size) ==
    [i \in 1 .. (Len(documents) \div batch_size) |->
        SubSeq(documents, (i - 1) * batch_size + 1, i * batch_size)]

\* Index._batch: documents[i : i + batch_size] for i in
\* range(0, len(documents), batch_size)
Batch(documents, batch_size) ==
    [i \in 1 .. ((Len(documents) + batch_size - 1) \div batch_size) |->
        SubSeq(documents, (i - 1) * batch_size + 1,
               Min(i * batch_size, Len(documents)))]

BatchArg(documents, batch_size) ==
    [type |-> "batches", documents |-> documents, batch_size |-> batch_size]

\* The list that a batched operation hands back.
UpdateIdList(refs) == [type |-> "update_ids", refs |-> refs]

\* A coroutine object of update_documents that nobody has awaited.
Coroutine(documents) ==
    [type |-> "coroutine", of |-> "update_documents", documents |-> documents]

AddRequest(document_batch) ==
    Request("POST", "indexes/a/documents", ListValue(document_batch))

\* Index.add_documents_in_batches up to the await of its first add_documents
AddDocumentsInBatches(documents, batch_size) ==
    LET batches == Batch(documents, batch_size)
    IN  IF Len(batches) = 0
        THEN /\ stage = "idle"
             /\ op' = [name |-> "add_documents_in_batches",
                       arg |-> BatchArg(documents, batch_size)]
             /\ log' = <<>>
             /\ stage' = "done"
             /\ opResult' = Return(UpdateIdList(<<>>))
             /\ UNCHANGED <<pollVars, transportVars, serverVars>>
        ELSE Start("add_documents_in_batches", BatchArg(documents, batch_size),
                   AddRequest(batches[1]))

\* Index.add_documents_in_batches from the reply to one add_documents on: an
\* exception leaves the loop, a result is appended to update_ids and the next
\* batch is sent, and after the last batch update_ids is returned.
BatchReply(reply) ==
    /\ stage = "waiting"
    /\ op.name = "add_documents_in_batches"
    /\ LET n == Len(log)
           answered == [log EXCEPT ![n].reply = reply]
           update_id == SendRequestResult(reply)
           batches == Batch(op.arg.documents, op.arg.batch_size)
       IN  IF update_id.kind = "raise"
           THEN /\ log' = answered
                /\ stage' = "done"
                /\ opResult' = update_id
           ELSE IF n < Len(batches)
           THEN /\ log' = Append(answered, AddRequest(batches[n + 1]))
                /\ stage' = "waiting"
                /\ UNCHANGED opResult
           ELSE /\ log' = answered
                /\ stage' = "done"
                /\ opResult' = Return(UpdateIdList(
                       [i \in 1 .. n |->
                           SendRequestResult(answered[i].reply).value]))
    /\ UNCHANGED op
    /\ UNCHANGED <<pollVars, transportVars, serverVars>>

\* Index.update_documents_in_batches: update_documents is called for every
\* batch and never awaited, so the call ends without a suspension and
\* without a request, and update_ids holds the coroutine objects.
UpdateDocumentsInBatches(documents, batch_size) ==
    LET batches == Batch(documents, batch_size)
    IN  /\ stage = "idle"
        /\ op' = [name |-> "update_documents_in_batches",
                  arg |-> BatchArg(documents, batch_size)]
        /\ log' = <<>>
        /\ stage' = "done"
        /\ opResult' = Return(UpdateIdList(
               [i \in 1 .. Len(batches) |-> Coroutine(ListValue(batches[i]))]))
        /\ UNCHANGED <<pollVars, transportVars, serverVars>>

\* The static method Index._iso_to_date_time, called on its own.
IsoToDateTimeCalled(iso_date) ==
    /\ stage = "idle"
    /\ op' = [name |-> "_iso_to_date_time", arg |-> iso_date]
    /\ log' = <<>>
    /\ stage' = "done"
    /\ opResult' = IsoToDateTime(iso_date)
    /\ UNCHANGED <<pollVars, transportVars, serverVars>>

\* The reply to the request in flight arrives and the operation runs on to
\* its next request or to its end.
Reply(reply) ==
    /\ stage = "waiting"
    /\ op.name # "add_documents_in_batches"
    /\ LET n == Len(log)
           answered == [log EXCEPT ![n].reply = reply]
           step == Resume(op, n, SendRequestResult(reply))
       IN  IF step.kind = "request"
           THEN /\ log' = Append(answered, step.request)
                /\ stage' = "waiting"
                /\ UNCHANGED opResult
           ELSE /\ log' = answered
                /\ stage' = "done"
                /\ opResult' = step
    /\ UNCHANGED op
    /\ UNCHANGED <<pollVars, transportVars, serverVars>>

\* ========================================================================
\* The index "a" on the server and two tasks of one event loop, each with
\* its own Index handle for it.  A request is served by the server in one
\* step, and its reply reaches the task that awaits it in a later one, so
\* the requests of the two tasks interleave in every order.

Tasks == {1, 2}

\* The timestamps that the server writes: six digits, seven digits, none.
Stamps ==
    {"2021-09-01T12:00:00.000000Z", "2021-09-01T12:00:00.7000000Z",
     "2021-09-01T12:00:00Z"}

PrimaryKeys == {"None", "b"}

NoIndex ==
    [exists |-> FALSE, primaryKey |-> "None",
     createdAt |-> "None", updatedAt |-> "None"]

\* The JSON object that describes the index.
IndexJson(srv) ==
    Dumps(DictValue([k \in {"uid", "primaryKey", "createdAt", "updatedAt"} |->
                        IF k = "uid" THEN Uid ELSE srv[k]]))

ErrorJson(code) == Dumps(DictValue([message |-> "msg", code |-> code]))

Response(status, content) ==
    [type |-> "response", status |-> status, content |-> content]

\* The server serves one request: the reply and the index afterwards.  stamp
\* is the time of the server, written into what it creates or updates.
Serve(srv, request, stamp) ==
    LET Answer(reply, after) == [reply |-> reply, server |-> after]
        not_found == Answer(Response(404, ErrorJson("index_not_found")), srv)
        created == [exists |-> TRUE,
                    primaryKey |-> DictGet(request.body.items, "primaryKey"),
                    createdAt |-> stamp, updatedAt |-> stamp]
        updated == [srv EXCEPT !.primaryKey = request.body.items["primaryKey"],
                               !.updatedAt = stamp]
    IN  CASE request.method = "POST" /\ request.path = "indexes" ->
                IF srv.exists
                THEN Answer(Response(400, ErrorJson("index_already_exists")), srv)
                ELSE Answer(Response(201, IndexJson(created)), created)
          [] ~srv.exists -> not_found
          [] request.method = "GET" /\ request.path = "indexes/a" ->
                Answer(Response(200, IndexJson(srv)), srv)
          [] request.method = "PUT" /\ request.path = "indexes/a" ->
                IF srv.primaryKey # "None"
                THEN Answer(Response(400, ErrorJson("primary_key_already_present")),
                            srv)
                ELSE Answer(Response(200, IndexJson(updated)), updated)
          [] request.method = "DELETE" /\ request.path = "indexes/a" ->
                Answer(Response(204, <<>>), NoIndex)
          [] OTHER ->
                Answer(Response(202, Dumps(DictValue([updateId |-> "1"]))), srv)

\* The operations of a task, and the request each one begins with.
TaskOperations ==
    [get_or_create_index |-> Request("GET", "indexes/a", None),
     fetch_info |-> Request("GET", "indexes/a", None),
     get_primary_key |-> Request("GET", "indexes/a", None),
     update |-> Request("PUT", "indexes/a", DictValue([primaryKey |-> "b"])),
     delete |-> Request("DELETE", "indexes/a", None),
     add_documents |-> Request("POST", "indexes/a/documents", ListValue(<<"a">>))]

Refreshing == {"fetch_info", "get_primary_key", "update"}

IdleTask ==
    [op |-> "none", pc |-> "idle", log |-> <<>>, calls |-> 0,
     before |-> IndexValue(Uid, "None", None, None),
     result |-> [kind |-> "none"]]

\* client.index("a") in each task; nothing has been called.
ServerIdle ==
    /\ server = NoIndex
    /\ handles = [t \in Tasks |-> IndexValue(Uid, "None", None, None)]
    /\ tasks = [t \in Tasks |-> IdleTask]

HandleAfterForgetsOnDelete(self, name, result) ==
    IF name \in Refreshing THEN Refresh(self, result).self
    ELSE IF name = "delete" THEN [self EXCEPT !.primary_key = "None"]
    ELSE self

\* The handle after the reply: only fetch_info, get_primary_key (through
\* fetch_info) and update assign to self.
HandleAfter(self, name, result) ==
    IF name \in Refreshing THEN Refresh(self, result).self ELSE self

\* What the operation does with the result of its n-th request.
TaskResume(self, name, n, result) ==
    CASE name \in {"fetch_info", "update"} -> Refresh(self, result).outcome
      [] name = "get_primary_key" ->
            IF Refresh(self, result).outcome.kind = "raise"
            THEN Refresh(self, result).outcome
            ELSE Return([type |-> "primary_key",
                         value |-> Refresh(self, result).self.primary_key])
      [] name = "get_or_create_index" ->
            IF n = 1 THEN GetOrCreateIndex(result, None) ELSE Create(result)
      [] name = "delete" -> IndexDelete(result)
      [] OTHER -> result

\* Task t calls an operation on its handle (or get_or_create_index on the
\* client) and suspends on the first request.
TaskCalls(t, name) ==
    /\ tasks[t].pc \in {"idle", "done"}
    /\ tasks[t].calls < MaxCalls
    /\ tasks' = [tasks EXCEPT ![t] =
                    [op |-> name, pc |-> "sent", log |-> <<TaskOperations[name]>>,
                     calls |-> @.calls + 1, before |-> handles[t],
                     result |-> [kind |-> "none"]]]
    /\ UNCHANGED <<server, handles>>
    /\ UNCHANGED <<pollVars, transportVars, callVars>>

\* The server serves the request of task t.
ServerServes(t, stamp) ==
    /\ tasks[t].pc = "sent"
    /\ LET n == Len(tasks[t].log)
           served == Serve(server, tasks[t].log[n], stamp)
       IN  /\ served.server # server \/ stamp = "2021-09-01T12:00:00.000000Z"
           /\ server' = served.server
           /\ tasks' = [tasks EXCEPT ![t].pc = "replied",
                                     ![t].log[n].reply = served.reply]
    /\ UNCHANGED handles
    /\ UNCHANGED <<pollVars, transportVars, callVars>>

\* The reply reaches task t, which runs on to its next request or its end.
TaskResumes(t) ==
    /\ tasks[t].pc = "replied"
    /\ LET n == Len(tasks[t].log)
           result == SendRequestResult(tasks[t].log[n].reply)
           step == TaskResume(handles[t], tasks[t].op, n, result)
       IN  /\ handles' = [handles EXCEPT
                             ![t] = HandleAfter(@, tasks[t].op, result)]
           /\ IF step.kind = "request"
              THEN tasks' = [tasks EXCEPT ![t].pc = "sent",
                                          ![t].log = Append(@, step.request)]
              ELSE tasks' = [tasks EXCEPT ![t].pc = "done",
                                          ![t].result = step]
    /\ UNCHANGED server
    /\ UNCHANGED <<pollVars, transportVars, callVars>>

\* No operation has been called yet.
CallIdle ==
    /\ op = [name |-> "none", arg |-> None]
    /\ stage = "idle"
    /\ log = <<>>
    /\ opResult = [kind |-> "none"]

PollIdle ==
    /\ pc = "idle"
    /\ start_time = 0
    /\ elapsed_time = 0
    /\ timeout_in_ms = 0
    /\ interval_in_ms = 0
    /\ get_update = "none"
    /\ outcome = "none"
    /\ inflight = FALSE
    /\ statuses = <<>>
    /\ reads = 0
    /\ sleeps = 0
    /\ otherSteps = 0
    /\ cancelRequested = FALSE
    /\ cancelPc = "none"
    /\ readsAtCancel = 0

\* Client.__init__
ClientInit ==
    /\ http = <<NewHttpRequests("client")>>
    /\ sessions = <<>>
    /\ requests = <<>>
    /\ finished = NoRequest
    /\ sent = 0
    /\ clientClosed = FALSE

InitPoll ==
    /\ now \in StartTimes
    /\ PollIdle
    /\ ClientInit
    /\ CallIdle
    /\ ServerIdle

NextPoll ==
    \/ \E timeout \in Timeouts, interval \in Intervals :
           WaitForPendingUpdate(timeout, interval)
    \/ \E status \in Statuses, latency \in Latencies :
           StatusRead(status, latency)
    \/ \E latency \in Latencies : StatusReadFails(latency)
    \/ \E oversleep \in Oversleeps : SleepReturns(oversleep)
    \/ OtherTaskStep
    \/ CancelRequest
    \/ CancelDelivered

SpecPoll == InitPoll /\ [][NextPoll]_vars

InitTransport ==
    /\ now = 0
    /\ PollIdle
    /\ ClientInit
    /\ CallIdle
    /\ ServerIdle

NextTransport ==
    \/ \E t \in 1 .. MaxHttp : Get(t)
    \/ \E t \in 1 .. MaxHttp, content_type \in ContentTypes :
           Post(t, content_type)
    \/ \E t \in 1 .. MaxHttp : Put(t)
    \/ \E t \in 1 .. MaxHttp : Delete(t)
    \/ NewIndex
    \/ IndexCreate
    \/ ClientClose
    \/ ClientAexit
    \/ \E t \in 1 .. MaxHttp : IndexClose(t)
    \/ \E r \in 1 .. MaxRequests, result \in Outcomes : Respond(r, result)

SpecTransport == InitTransport /\ [][NextTransport]_vars

InitCall ==
    /\ now = 0
    /\ PollIdle
    /\ ClientInit
    /\ CallIdle
    /\ ServerIdle

NextCall ==
    \/ \E method \in Methods, body \in Bodies : SendRequestCalled(method, body)
    \/ \E name \in DOMAIN FirstRequest : Operation(name)
    \/ \E options \in Options : CreateIndex(options)
    \/ \E options \in Options : GetOrCreateIndexCalled(options)
    \/ \E documents \in Documents : AddDocuments(documents)
    \/ \E ids \in Documents : DeleteDocuments(ids)
    \/ \E reply \in Replies : Reply(reply)
    \/ \E documents \in SeqsUpTo(Ids, MaxItems), batch_size \in BatchSizes :
           AddDocumentsInBatches(documents, batch_size)
    \/ \E documents \in SeqsUpTo(Ids, MaxItems), batch_size \in BatchSizes :
           UpdateDocumentsInBatches(documents, batch_size)
    \/ \E reply \in BatchReplies : BatchReply(reply)
    \/ \E iso_date \in IsoDates : IsoToDateTimeCalled(iso_date)

SpecCall == InitCall /\ [][NextCall]_vars

InitServer ==
    /\ now = 0
    /\ PollIdle
    /\ ClientInit
    /\ CallIdle
    /\ ServerIdle

NextServer ==
    \/ \E t \in Tasks, name \in DOMAIN TaskOperations : TaskCalls(t, name)
    \/ \E t \in Tasks, stamp \in Stamps : ServerServes(t, stamp)
    \/ \E t \in Tasks : TaskResumes(t)

SpecServer == InitServer /\ [][NextServer]_vars

\* ========================================================================
\* Properties of the poller (checked under SpecPoll).

PendingStatuses == {"enqueued", "processing"}

\* C1: wait_for_pending_update performs at least one status read before it
\* raises the timeout error, whatever the timeout (0 included).
C1_ReadBeforeTimeout == outcome = "timeout" => reads >= 1

\* C2: when every status read reported a pending status, the call ends by
\* raising the timeout error, never by returning, and at that moment the
\* time elapsed since the call started is at least timeout_in_ms.
C2_TimeoutNotBeforeDeadline ==
    (/\ pc = "done"
     /\ outcome \notin {"error", "cancelled"}
     /\ \A i \in 1 .. Len(statuses) : statuses[i] \in PendingStatuses)
    => (outcome = "timeout" /\ now - start_time >= timeout_in_ms)

\* The timeout is raised after pending reads, one sleep having lasted more
\* than a day.
C2_Witness ==
    /\ outcome = "timeout"
    /\ timeout_in_ms > 0
    /\ Len(statuses) >= 2
    /\ \A i \in 1 .. Len(statuses) : statuses[i] \in PendingStatuses
    /\ now - start_time >= MsPerDay

\* C3: with timeout_in_ms > 0, a first status read that is not pending is
\* returned after exactly one status read and no sleep.
C3_ImmediateReturn ==
    (/\ timeout_in_ms > 0
     /\ Len(statuses) >= 1
     /\ statuses[1] \notin PendingStatuses)
    => (/\ pc = "done"
        /\ outcome = "returned"
        /\ get_update = statuses[1]
        /\ reads = 1
        /\ sleeps = 0)

C3_Witness ==
    /\ outcome = "returned"
    /\ get_update = "failed"
    /\ timeout_in_ms < interval_in_ms
    /\ reads = 1
    /\ sleeps = 0

\* C4: the call never returns a pending status, and once a status that is
\* not pending has been read there is no further status read and no
\* further sleep.
C4_OnlyPendingToTerminal ==
    /\ outcome = "returned" => get_update \notin PendingStatuses
    /\ \A i \in 1 .. Len(statuses) :
           statuses[i] \notin PendingStatuses =>
               /\ i = Len(statuses)
               /\ pc = "done"
               /\ reads = i
               /\ sleeps = i - 1
               /\ ~inflight

C4_Witness ==
    /\ outcome = "returned"
    /\ Len(statuses) >= 3
    /\ statuses[1] \in PendingStatuses
    /\ statuses[2] \in PendingStatuses

\* C5: while the poller waits interval_in_ms between two status reads, the
\* other tasks of the event loop can still take their steps.
C5_OtherTasksRunDuringSleep ==
    (pc = "sleeping" /\ otherSteps < MaxOther) => ENABLED OtherTaskStep

\* C6: a cancellation requested while the poller is in its sleep unwinds
\* the loop at once: no further status read is issued and no request is
\* left in flight.
C6_CancelInSleepUnwinds ==
    (cancelRequested /\ cancelPc = "sleeping")
    => (reads = readsAtCancel /\ ~inflight)

\* ========================================================================
\* Properties of the transports (checked under SpecTransport).

SessionsOf(t) == {s \in 1 .. Len(sessions) : sessions[s].transport = t}

\* C7: a transport holds at most one open session: every open session it
\* created is the one it holds (an open session is never replaced), and a
\* request made after close gets a new, open session and is not refused.
C7_OneOpenSession ==
    /\ \A s \in 1 .. Len(sessions) :
           ~sessions[s].closed => http[sessions[s].transport].session = s
    /\ \A r \in 1 .. Len(requests) :
           requests[r].reopened =>
               \E s \in SessionsOf(requests[r].transport) :
                   s < requests[r].session /\ sessions[s].closed
    /\ finished.state # "runtime_error"

\* A request sent after Client.close, on the session opened for it, ended
\* well, and the session it replaced stays closed.
C7_Witness ==
    /\ finished = [reopened |-> TRUE, state |-> "ok"]
    /\ Cardinality(SessionsOf(1)) = 2
    /\ sessions[1].closed
    /\ ~sessions[2].closed

\* C8: requests started concurrently on a transport that had no session
\* create exactly one session, which all of them use and which the
\* transport holds.
C8_OneSessionOnConcurrentFirstUse ==
    \A t \in 1 .. Len(http) :
        (\A s \in SessionsOf(t) : ~sessions[s].closed) =>
            /\ Cardinality(SessionsOf(t)) <= 1
            /\ \A r \in InFlightOn(t) :
                   /\ SessionsOf(t) = {requests[r].session}
                   /\ http[t].session = requests[r].session

C8_Witness ==
    \E t \in 1 .. Len(http) :
        /\ Cardinality(InFlightOn(t)) >= 2
        /\ Cardinality(SessionsOf(t)) = 1
        /\ \E r \in InFlightOn(t) : requests[r].overlapped

\* C9: the client and its Index handles share one session, so that after
\* Client.close (or leaving the client's async context) no session opened
\* through the client or its handles is open (stated for the moments when
\* no request is in flight).
C9_CloseLeavesNoOpenSession ==
    (clientClosed /\ requests = <<>>) =>
        /\ \A s \in 1 .. Len(sessions) : sessions[s].closed
        /\ \A t \in 1 .. Len(http) : http[t].session \in {0, http[1].session}

\* C10: a request that overlaps another one of the same transport is sent
\* with the Content-Type of its own call (none when the call gave none).
C10_OwnContentType ==
    \A r \in 1 .. Len(requests) :
        requests[r].overlapped =>
            ContentTypeOf(requests[r].headers) = requests[r].content_type

\* C11: after any earlier requests on the transport, a request whose call
\* gave no content type (every GET and DELETE, a POST with None) is sent
\* without a Content-Type header.
C11_NoContentTypeUnlessGiven ==
    \A r \in 1 .. Len(requests) :
        (requests[r].content_type = "none" /\ ~requests[r].overlapped) =>
            "Content-Type" \notin DOMAIN requests[r].headers

\* C12: every request sent carries Authorization: Bearer <token>, and no
\* operation removes or changes that header on a transport.
C12_AuthorizationOnEveryRequest ==
    /\ \A r \in 1 .. Len(requests) :
           /\ "Authorization" \in DOMAIN requests[r].headers
           /\ requests[r].headers["Authorization"] = "Bearer api_key"
    /\ \A t \in 1 .. Len(http) :
           /\ "Authorization" \in DOMAIN http[t].headers
           /\ http[t].headers["Authorization"] = "Bearer api_key"

\* The second request of a transport, sent with a content type after a
\* request that had another one.
C12_Witness ==
    \E r \in 1 .. Len(requests) :
        /\ sent >= 2
        /\ requests[r].content_type = "text/csv"
        /\ requests[r].overlapped
        /\ requests[r].headers["Authorization"] = "Bearer api_key"

\* ---- claims about send_request and the operations built on it

\* C13: send_request maps each failure to its own error kind: a connection
\* failure raises MeiliSearchCommunicationError, a request that exceeds the
\* configured timeout raises MeiliSearchTimeoutError, and a non-2xx response
\* raises MeiliSearchApiError carrying the status of the response.
C13_EachFailureItsOwnKind ==
    (op.name = "send_request" /\ stage = "done") =>
        LET reply == log[1].reply
        IN  /\ (reply.type = "exception" /\ reply.cause = "connection_failure") =>
                   opResult = Raise(Error("MeiliSearchCommunicationError"))
            /\ (reply.type = "exception" /\ reply.cause = "timeout") =>
                   opResult = Raise(Error("MeiliSearchTimeoutError"))
            /\ (reply.type = "response" /\ reply.status \notin 200 .. 299) =>
                   /\ opResult.kind = "raise"
                   /\ opResult.error.class = "MeiliSearchApiError"
                   /\ opResult.error.status_code = reply.status

\* C14: every failed call of send_request (an exception of the HTTP library
\* or a non-2xx response, whatever its body) ends in one of the three typed
\* errors: no other error escapes and no failure becomes a return value.
C14_FailureEndsInTypedError ==
    (op.name = "send_request" /\ stage = "done") =>
        LET reply == log[1].reply
        IN  (\/ reply.type = "exception"
             \/ reply.type = "response" /\ reply.status \notin 200 .. 299) =>
                /\ opResult.kind = "raise"
                /\ opResult.error.class \in
                       {"MeiliSearchCommunicationError", "MeiliSearchTimeoutError",
                        "MeiliSearchApiError"}

\* C15: a MeiliSearchApiError carries the status of the response; with a
\* non-empty JSON body its message, code and link are the body's fields (None
\* for a missing field); with an empty body its message is the text of the
\* HTTP error and code and link are None.
C15_ApiErrorCarriesStatusAndBody ==
    (stage = "done" /\ IsApiError(opResult)) =>
        LET reply == log[Len(log)].reply
            e == opResult.error
        IN  /\ reply.type = "response"
            /\ e.status_code = reply.status
            /\ reply.content = <<>> =>
                   /\ e.message = "ClientResponseError"
                   /\ e.code = "None"
                   /\ e.link = "None"
            /\ reply.content # <<>> =>
                   \E items \in ErrorDicts \cup {IndexDict} :
                       /\ reply.content = Dumps(DictValue(items))
                       /\ \A k \in {"message", "code", "link"} :
                              k \in DOMAIN items => e[k] = items[k]
                       /\ \A k \in {"message", "code", "link"} :
                              k \notin DOMAIN items => e[k] = "None"

C15_Witness ==
    /\ op.name = "send_request"
    /\ stage = "done"
    /\ IsApiError(opResult)
    /\ opResult.error.status_code = 404
    /\ opResult.error.message = "msg"
    /\ opResult.error.code = "index_not_found"
    /\ opResult.error.link = "None"

\* C16: for a 2xx response send_request returns the parsed JSON value when
\* the body is non-empty and the raw response handle when it is empty, and
\* raises nothing.
C16_SuccessReturnsValueOrHandle ==
    (op.name = "send_request" /\ stage = "done") =>
        LET reply == log[1].reply
        IN  (reply.type = "response" /\ reply.status \in 200 .. 299) =>
                /\ opResult.kind = "return"
                /\ reply.content = <<>> =>
                       opResult.value =
                           [type |-> "ClientResponse", status |-> reply.status]
                /\ reply.content # <<>> =>
                       /\ opResult.value.type \in {"list", "dict"}
                       /\ Dumps(opResult.value) = reply.content

\* C17: a map or a list, the empty ones included, is sent as its JSON text
\* (the text the server reads back into the same value), and bytes are sent
\* unchanged.
C17_PayloadEqualsBody ==
    \A i \in 1 .. Len(log) :
        /\ log[i].body.type \in {"list", "dict"} =>
               /\ log[i].data.type = "str"
               /\ Loads(log[i].data.data) = [ok |-> TRUE, value |-> log[i].body]
        /\ log[i].body.type = "bytes" => log[i].data = log[i].body

\* C18: Client.delete_index_if_exists and Index.delete_if_exists send one
\* DELETE; its success gives True, an API error of code index_not_found gives
\* False, and every other error reaches the caller unchanged.
C18_DeleteIfExists ==
    (op.name \in {"delete_index_if_exists", "delete_if_exists"}) =>
        /\ Len(log) = 1
        /\ log[1].method = "DELETE"
        /\ log[1].path = "indexes/a"
        /\ stage = "done" =>
               LET deleted == SendRequestResult(log[1].reply)
                   not_found == /\ IsApiError(deleted)
                                /\ deleted.error.code = "index_not_found"
               IN  /\ deleted.kind = "return" => opResult = Return(Bool(TRUE))
                   /\ not_found => opResult = Return(Bool(FALSE))
                   /\ (deleted.kind = "raise" /\ ~not_found) => opResult = deleted

C18_Witness ==
    /\ op.name = "delete_index_if_exists"
    /\ stage = "done"
    /\ log[1].reply.type = "response"
    /\ log[1].reply.status = 404
    /\ log[1].reply.content # <<>>
    /\ opResult = Return(Bool(FALSE))

\* The reply says that the index does not exist.
NotFoundReply(reply) ==
    /\ reply.type = "response"
    /\ reply.status >= 400
    /\ \E items \in ErrorDicts :
           /\ reply.content = Dumps(DictValue(items))
           /\ "code" \in DOMAIN items
           /\ items["code"] = "index_not_found"

\* C19: get_or_create_index first fetches the index; a fetch that succeeds
\* gives the existing index and no create request; a create request is sent
\* exactly when the fetch failed with an API error of code index_not_found;
\* any other fetch error is raised again and no create request is sent.
C19_GetOrCreateIndex ==
    (op.name = "get_or_create_index") =>
        /\ Len(log) \in {1, 2}
        /\ log[1].method = "GET"
        /\ log[1].path = "indexes/a"
        /\ log[1].reply # NoReply =>
               LET fetched == FetchInfo(SendRequestResult(log[1].reply))
               IN  /\ Len(log) = 2 <=> NotFoundReply(log[1].reply)
                   /\ Len(log) = 2 =>
                          /\ log[2].method = "POST"
                          /\ log[2].path = "indexes"
                          /\ log[2].body = CreatePayload(op.arg)
                   /\ fetched.kind = "return" =>
                          /\ stage = "done"
                          /\ opResult = fetched
                          /\ opResult.value.type = "Index"
                          /\ opResult.value.uid = Uid
                   /\ (fetched.kind = "raise" /\ ~NotFoundReply(log[1].reply)) =>
                          /\ stage = "done"
                          /\ opResult = fetched

C19_Witness ==
    /\ op.name = "get_or_create_index"
    /\ stage = "done"
    /\ Len(log) = 2
    /\ NotFoundReply(log[1].reply)
    /\ log[2].method = "POST"
    /\ opResult.kind = "return"
    /\ opResult.value.type = "Index"

\* The error of the i-th request was taken as "the index does not exist" by
\* one of the operations that may do so.
SwallowedAsNotFound(i) ==
    /\ op.name \in {"delete_index_if_exists", "delete_if_exists",
                    "get_or_create_index"}
    /\ NotFoundReply(log[i].reply)

\* The error of the i-th request reached the caller as it was raised.
Propagated(i) ==
    /\ stage = "done"
    /\ i = Len(log)
    /\ opResult = SendRequestResult(log[i].reply)

\* C20 as stated: apart from delete-if-exists and get-or-create on an
\* index_not_found API error, every error raised by the request of an
\* operation reaches the caller unchanged.
C20_NoSwallowExceptNotFound ==
    \A i \in 1 .. Len(log) :
        (/\ log[i].reply # NoReply
         /\ SendRequestResult(log[i].reply).kind = "raise") =>
            \/ Propagated(i)
            \/ SwallowedAsNotFound(i)

\* C20 amended: the same, with Client.is_healthy as a further exception,
\* which answers False to every MeiliSearchError of its request.
C20_NoSwallowExceptNotFoundAndIsHealthy ==
    \A i \in 1 .. Len(log) :
        (/\ log[i].reply # NoReply
         /\ SendRequestResult(log[i].reply).kind = "raise") =>
            \/ Propagated(i)
            \/ SwallowedAsNotFound(i)
            \/ /\ op.name = "is_healthy"
               /\ SendRequestResult(log[i].reply).error.class \in
                      {"MeiliSearchApiError", "MeiliSearchCommunicationError",
                       "MeiliSearchTimeoutError"}
               /\ opResult = Return(Bool(FALSE))

C20_Witness ==
    /\ op.name = "add_documents"
    /\ stage = "done"
    /\ log[1].reply.type = "exception"
    /\ opResult = Raise(Error("MeiliSearchCommunicationError"))

\* ---- claims about repeated requests and batches

\* The request got no 2xx response.
Failed(reply) ==
    \/ reply.type = "exception"
    \/ reply.type = "response" /\ reply.status \notin 200 .. 299

SameRequest(r1, r2) ==
    /\ r1.method = r2.method
    /\ r1.path = r2.path
    /\ r1.body = r2.body

\* C21: no operation sends a request again: after a request that failed the
\* same request is not sent a second time, after a failed POST, PUT or
\* DELETE the call sends nothing more, and an operation that is not batched
\* sends no request twice.
C21_NoRequestSentAgain ==
    \A i \in 1 .. Len(log), j \in 1 .. Len(log) :
        (i < j) =>
            /\ Failed(log[i].reply) => ~SameRequest(log[i], log[j])
            /\ ~(Failed(log[i].reply) /\ log[i].method \in {"POST", "PUT", "DELETE"})
            /\ op.name # "add_documents_in_batches" => ~SameRequest(log[i], log[j])

C21_Witness ==
    /\ op.name = "add_documents_in_batches"
    /\ stage = "done"
    /\ Len(log) = 2
    /\ Len(op.arg.documents) = 3
    /\ op.arg.batch_size = 1
    /\ ~Failed(log[1].reply)
    /\ Failed(log[2].reply)
    /\ opResult.kind = "raise"

\* The i-th chunk of documents for chunks of size b.
Chunk(documents, b, i) ==
    [j \in 1 .. (Min(i * b, Len(documents)) - (i - 1) * b) |->
        documents[(i - 1) * b + j]]

\* The reply accepts the documents as the update that ref names.
Accepted(reply, ref) ==
    \E u \in UpdateIds :
        /\ reply.type = "response"
        /\ reply.content = Dumps(DictValue([updateId |-> u]))
        /\ ref = DictValue([updateId |-> u])

\* C22: add_documents_in_batches sends its add requests in order, the i-th
\* with documents[(i-1)*b .. min(i*b, n)]; when it returns it has sent
\* ceil(n/b) of them and returns the task reference of each, in order.
C22_AddInBatches ==
    (op.name = "add_documents_in_batches") =>
        LET documents == op.arg.documents
            b == op.arg.batch_size
            n == Len(documents)
        IN  /\ \A i \in 1 .. Len(log) :
                   /\ log[i].method = "POST"
                   /\ log[i].path = "indexes/a/documents"
                   /\ (i - 1) * b < n
                   /\ log[i].body = ListValue(Chunk(documents, b, i))
                   /\ log[i].data = [type |-> "str", data |-> Dumps(log[i].body)]
            /\ (stage = "done" /\ opResult.kind = "return") =>
                   /\ Len(log) * b >= n
                   /\ opResult.value.type = "update_ids"
                   /\ Len(opResult.value.refs) = Len(log)
                   /\ \A i \in 1 .. Len(log) :
                          Accepted(log[i].reply, opResult.value.refs[i])

C22_Witness ==
    /\ op.name = "add_documents_in_batches"
    /\ stage = "done"
    /\ Len(op.arg.documents) = 3
    /\ op.arg.batch_size = 2
    /\ Len(log) = 2
    /\ Len(log[1].body.items) = 2
    /\ Len(log[2].body.items) = 1
    /\ opResult.kind = "return"
    /\ opResult.value.refs[1] # opResult.value.refs[2]

\* C23: before update_documents_in_batches returns it has sent one PUT per
\* chunk, in chunk order, and the list it returns holds the server's task
\* reference for each chunk.
C23_UpdateInBatches ==
    (op.name = "update_documents_in_batches" /\ stage = "done") =>
        LET documents == op.arg.documents
            b == op.arg.batch_size
            n == Len(documents)
        IN  /\ Len(log) * b >= n
            /\ \A i \in 1 .. Len(log) :
                   /\ log[i].method = "PUT"
                   /\ (i - 1) * b < n
                   /\ log[i].body = ListValue(Chunk(documents, b, i))
            /\ opResult.kind = "return" =>
                   /\ Len(opResult.value.refs) = Len(log)
                   /\ \A i \in 1 .. Len(log) :
                          Accepted(log[i].reply, opResult.value.refs[i])

\* C24: when the request for chunk k of a batched add fails, no chunk after
\* k is sent and the caller receives the task references of the chunks
\* 1..k-1.
C24_ReferencesBeforeFailure ==
    (/\ op.name = "add_documents_in_batches"
     /\ stage = "done"
     /\ Len(log) >= 1
     /\ Failed(log[Len(log)].reply)) =>
        LET k == Len(log)
        IN  /\ \A i \in 1 .. k - 1 : ~Failed(log[i].reply)
            /\ opResult.kind = "return"
            /\ opResult.value.type = "update_ids"
            /\ Len(opResult.value.refs) = k - 1
            /\ \A i \in 1 .. k - 1 :
                   Accepted(log[i].reply, opResult.value.refs[i])

\* ---- the poll loop and timeouts of more than a day

\* C28, for timeouts longer than one day: while every status read reports a
\* pending status the loop ends with the timeout error once the timeout has
\* passed, so another status read is sent only while the time since
\* start_time is below timeout_in_ms.
C28_NoReadAfterLongTimeout ==
    (/\ timeout_in_ms > MsPerDay
     /\ pc = "awaiting"
     /\ \A i \in 1 .. Len(statuses) : statuses[i] \in PendingStatuses)
    => now - start_time < timeout_in_ms

\* ---- claims about timestamps

\* The text Date "." digits "Z" was parsed.
ParsedFraction(digits) ==
    /\ op.name = "_iso_to_date_time"
    /\ op.arg = IsoText(<<".">> \o digits \o <<"Z">>)

\* C25: a timestamp with more than six fractional digits is parsed without
\* an error to the date-time with its first six fractional digits, the
\* value that the text with only those six digits is parsed to.
C25_ExtraDigitsTruncated ==
    \A digits \in SeqsUpTo(DigitChars, MaxDigits) :
        (ParsedFraction(digits) /\ Len(digits) >= FractionDigits) =>
            /\ opResult.kind = "return"
            /\ opResult.value.type = "datetime"
            /\ opResult.value.date = Date
            /\ opResult.value.microsecond =
                   DigitValue(digits[1]) * 100000 + DigitValue(digits[2]) * 10000
                   + DigitValue(digits[3]) * 1000 + DigitValue(digits[4]) * 100
                   + DigitValue(digits[5]) * 10 + DigitValue(digits[6])

C25_Witness ==
    /\ ParsedFraction(<<"7", "0", "7", "0", "0", "7", "7", "7", "7">>)
    /\ opResult.kind = "return"
    /\ opResult.value.microsecond = 707007

\* C26: a timestamp with fewer than six fractional digits, or with no
\* fractional part at all, is parsed without an error to the date-time with
\* the missing digits read as zeros.
C26_MissingDigitsPadded ==
    /\ \A digits \in SeqsUpTo(DigitChars, FractionDigits - 1) :
           (ParsedFraction(digits) /\ Len(digits) >= 1) =>
               /\ opResult.kind = "return"
               /\ opResult.value = DateTime(Date, Microsecond(digits))
    /\ (op.name = "_iso_to_date_time" /\ op.arg = IsoText(<<"Z">>)) =>
           /\ opResult.kind = "return"
           /\ opResult.value = DateTime(Date, 0)

\* ---- claims about the cached metadata and concurrent calls

\* C27: the cached metadata of a handle changes only in the step in which
\* fetch_info, get_primary_key or update of a task working on that handle
\* gets its reply; no other operation and no change on the server changes
\* it, and uid never changes.
C27_CacheChangesOnlyOnRefresh ==
    [][\A t \in Tasks :
          /\ handles'[t].uid = handles[t].uid
          /\ handles'[t] # handles[t] =>
                 /\ tasks[t].op \in {"fetch_info", "get_primary_key", "update"}
                 /\ tasks[t].pc = "replied"
                 /\ tasks'[t].pc = "done"]_vars

\* The handle of task 1 still shows no primary key after task 2 has set one
\* on the server.
C27_Witness ==
    /\ tasks[1].op = "fetch_info"
    /\ tasks[1].pc = "done"
    /\ handles[1].created_at.type = "datetime"
    /\ handles[1].primary_key = "None"
    /\ tasks[2].op = "update"
    /\ tasks[2].pc = "done"
    /\ server.primaryKey = "b"

\* C29: two get_or_create_index calls for an index that did not exist, run
\* by two tasks, both return an index for the uid (the timestamps the server
\* wrote having six digits).
C29_ConcurrentGetOrCreate ==
    (/\ \A t \in Tasks :
            /\ tasks[t].op = "get_or_create_index"
            /\ tasks[t].calls = 1
            /\ tasks[t].pc = "done"
     /\ server.createdAt = "2021-09-01T12:00:00.000000Z")
    => \A t \in Tasks :
           /\ tasks[t].result.kind = "return"
           /\ tasks[t].result.value.type = "Index"
           /\ tasks[t].result.value.uid = Uid

\* C30: when fetch_info or update returns, the three cached fields are those
\* of the response; when it raises, the handle is as it was before the call.
C30_AtomicRefresh ==
    \A t \in Tasks :
        (tasks[t].pc = "done" /\ tasks[t].op \in {"fetch_info", "update"}) =>
            /\ tasks[t].result.kind = "raise" => handles[t] = tasks[t].before
            /\ tasks[t].result.kind = "return" =>
                   \E pk \in PrimaryKeys, c \in Stamps, u \in Stamps :
                       /\ tasks[t].log[1].reply.content =
                              IndexJson([primaryKey |-> pk, createdAt |-> c,
                                         updatedAt |-> u])
                       /\ handles[t].primary_key = pk
                       /\ Return(handles[t].created_at) = IsoToDateTime(Timestamp(c))
                       /\ Return(handles[t].updated_at) = IsoToDateTime(Timestamp(u))

====
